---------------------------- MODULE Spec2Model ----------------------------
(***************************************************************************)
(* A model of src/src/index.ts: the GitHub repository MCP server.          *)
(*                                                                         *)
(* Strings that the program takes apart are modelled by their parts:       *)
(*   - a URL path or a repository path is the sequence of its segments,    *)
(*     the pieces between "/" ("src/a.ts" is <<"src", "a.ts">>, the empty  *)
(*     string is <<"">>, and a pathname "/a/b/" is <<"a", "b", "">>);      *)
(*   - a base64 text is the sequence of its characters;                    *)
(*   - a decoded text is the sequence of its code points.                  *)
(* JSON values are tagged records, so that an absent, null, string and     *)
(* number field are four different things, as they are for the schema.     *)
(***************************************************************************)
EXTENDS Integers, Sequences, FiniteSets, TLC

(* Number of protocol requests one run of the process takes. *)
MaxReq == 2

(* Longest directory listing the forge returns in the library-use model. *)
MaxEntries == 2

VARIABLES
    env,        \* process.env: the four GITHUB_* variables
    pc,         \* position of runServer (or of the embedding caller)
    params,     \* the argument handed to createGithubRepoServer
    server,     \* "none" | "constructed" | "connected"
    config,     \* the configuration captured by the server's closures
    thrown,     \* errors createGithubRepoServer threw to its caller
    exit,       \* process.exit codes, <<>> while the process runs
    stderr,     \* diagnostics written with console.error
    reqs,       \* the protocol requests: handler position, fetch, responses
    outbound    \* number of fetch calls made

vars == <<env, pc, params, server, config, thrown, exit, stderr, reqs, outbound>>

-----------------------------------------------------------------------------
(* JavaScript values *)

(* An environment variable that is not set, a parameter that is not given. *)
Unset == "<undefined>"

(* !s for a string-or-undefined s *)
Falsy(s) == s = Unset \/ s = ""

JUndefined == [t |-> "undefined"]
JNull == [t |-> "null"]
JStr(s) == [t |-> "string", v |-> s]
JNum(n) == [t |-> "number", v |-> n]
JObj(f) == [t |-> "object", f |-> f]
JArr(a) == [t |-> "array", a |-> a]

(* o.k for a JSON value o: undefined when o has no such property *)
Get(o, k) ==
    IF o.t = "object" /\ k \in DOMAIN o.f THEN o.f[k] ELSE JUndefined

-----------------------------------------------------------------------------
(* The zod schemas *)

IsZString(v) == v.t = "string"
IsZNumber(v) == v.t = "number"

FileStringKeys ==
    {"type", "encoding", "name", "path", "content", "sha", "url", "git_url",
     "html_url", "download_url"}

DirStringKeys ==
    {"type", "name", "path", "sha", "url", "git_url", "html_url"}

GitHubFileContentSchema(v) ==
    /\ v.t = "object"
    /\ \A k \in FileStringKeys : IsZString(Get(v, k))
    /\ IsZNumber(Get(v, "size"))

GitHubDirectoryContentSchema(v) ==
    /\ v.t = "object"
    /\ \A k \in DirStringKeys : IsZString(Get(v, k))
    /\ IsZNumber(Get(v, "size"))
    /\ (IsZString(Get(v, "download_url")) \/ Get(v, "download_url").t = "null")

GitHubContentSchemaMut(v) ==
    \/ GitHubFileContentSchema(v)
    \/ v.t = "array"

GitHubContentSchema(v) ==
    \/ GitHubFileContentSchema(v)
    \/ /\ v.t = "array"
       /\ \A i \in 1..Len(v.a) : GitHubDirectoryContentSchema(v.a[i])

-----------------------------------------------------------------------------
(* Buffer.from(content, "base64").toString("utf8") *)

B64Alphabet ==
    <<"A","B","C","D","E","F","G","H","I","J","K","L","M","N","O","P",
      "Q","R","S","T","U","V","W","X","Y","Z","a","b","c","d","e","f",
      "g","h","i","j","k","l","m","n","o","p","q","r","s","t","u","v",
      "w","x","y","z","0","1","2","3","4","5","6","7","8","9","+","/">>

(* the value of each character of the alphabet: "A" is 0, "/" is 63 *)
B64Value ==
    [c \in {B64Alphabet[i] : i \in 1..Len(B64Alphabet)} |->
       (CHOOSE i \in 1..Len(B64Alphabet) : B64Alphabet[i] = c) - 1]

IsB64Char(c) == c \in DOMAIN B64Value

(* The sextets of the text: decoding stops at the first "=", and a character
   outside the alphabet (a line break) is skipped. *)
RECURSIVE Sextets(_)
Sextets(chars) ==
    IF chars = <<>> \/ Head(chars) = "=" THEN <<>>
    ELSE IF IsB64Char(Head(chars))
         THEN <<B64Value[Head(chars)]>> \o Sextets(Tail(chars))
         ELSE Sextets(Tail(chars))

(* Four sextets make three bytes; a tail of two makes one byte, a tail of
   three makes two, and a tail of one makes none. *)
RECURSIVE BytesOf(_)
BytesOf(s) ==
    IF Len(s) >= 4
    THEN <<s[1] * 4 + s[2] \div 16,
           (s[2] % 16) * 16 + s[3] \div 4,
           (s[3] % 4) * 64 + s[4]>> \o BytesOf(SubSeq(s, 5, Len(s)))
    ELSE IF Len(s) = 3
    THEN <<s[1] * 4 + s[2] \div 16, (s[2] % 16) * 16 + s[3] \div 4>>
    ELSE IF Len(s) = 2
    THEN <<s[1] * 4 + s[2] \div 16>>
    ELSE <<>>

Base64Decode(chars) == BytesOf(Sextets(chars))

ReplacementChar == 65533

IsContinuation(b) == b >= 128 /\ b < 192

(* utf8 decoding of one- and two-byte sequences; any other byte becomes
   U+FFFD. *)
RECURSIVE Utf8Decode(_)
Utf8Decode(bytes) ==
    IF bytes = <<>> THEN <<>>
    ELSE IF bytes[1] < 128
    THEN <<bytes[1]>> \o Utf8Decode(Tail(bytes))
    ELSE IF /\ bytes[1] >= 194
            /\ bytes[1] < 224
            /\ Len(bytes) >= 2
            /\ IsContinuation(bytes[2])
    THEN <<(bytes[1] - 192) * 64 + (bytes[2] - 128)>>
             \o Utf8Decode(SubSeq(bytes, 3, Len(bytes)))
    ELSE <<ReplacementChar>> \o Utf8Decode(Tail(bytes))

DecodeContent(chars) == Utf8Decode(Base64Decode(chars))

-----------------------------------------------------------------------------
(* URLs.  A URL string is the record of its parts; a string with no scheme
   is a relative reference, which new URL(s) rejects. *)

ApiHost == "api.github.com"

Href(segs, search) ==
    [scheme |-> "https:", host |-> ApiHost, path |-> segs, search |-> search]

(* new URL(uri): throws on a string that is not an absolute URL *)
URLParses(uri) == uri.scheme # ""

(* String(v), as the URL constructor and a template literal apply it to a
   string, a number, null and undefined *)
ToSegs(v) ==
    IF v.t = "string" THEN v.v
    ELSE IF v.t = "number" THEN <<ToString(v.v)>>
    ELSE <<v.t>>

(* new URL(rel, base).href for a relative path rel: the last segment of the
   base's path is replaced by rel *)
URLResolve(rel, base) ==
    Href(SubSeq(base.path, 1, Len(base.path) - 1) \o ToSegs(rel), "")

(* `https://api.github.com/repos/${owner}/${repo}/contents/${path}`, with
   `?ref=${branch}` appended when a branch is configured *)
ContentsUrl(cfg, pathSegs) ==
    Href(<<"repos", cfg.owner, cfg.repo, "contents">> \o pathSegs,
         IF Falsy(cfg.branch) THEN "" ELSE "?ref=" \o cfg.branch)

resourceBaseUrl(cfg) ==
    Href(<<"repos", cfg.owner, cfg.repo, "contents", "">>, "")

(* The first i >= from where "/contents/" occurs in the pathname: segment i
   is "contents" and a "/" follows it.  0 when there is none. *)
NextMatch(segs, from) ==
    LET hits == {i \in from..(Len(segs) - 1) : segs[i] = "contents"}
    IN  IF hits = {} THEN 0
        ELSE CHOOSE i \in hits : \A j \in hits : i <= j

(* The pieces of pathname.split("/contents/") that follow the match at
   segment i.  The match takes the "/" in front of segment i + 1, so the next
   match starts at segment i + 2 at the earliest. *)
RECURSIVE PiecesAfter(_, _)
PiecesAfter(segs, i) ==
    LET j == NextMatch(segs, i + 2)
    IN  IF j = 0 THEN <<SubSeq(segs, i + 1, Len(segs))>>
        ELSE <<SubSeq(segs, i + 1, j - 1)>> \o PiecesAfter(segs, j)

(* pathname.split("/contents/") *)
SplitContents(segs) ==
    LET i == NextMatch(segs, 1)
    IN  IF i = 0 THEN <<segs>>
        ELSE <<SubSeq(segs, 1, i - 1)>> \o PiecesAfter(segs, i)

UndefinedPath == [defined |-> FALSE, segs |-> <<"undefined">>]

(* resourceUrl.pathname.split("/contents/")[1]; segs is what `${path}`
   puts into the fetch URL, "undefined" for an undefined path *)
ExtractPath(uri) ==
    LET pieces == SplitContents(uri.path)
    IN  IF Len(pieces) >= 2
        THEN [defined |-> TRUE, segs |-> pieces[2]]
        ELSE UndefinedPath

-----------------------------------------------------------------------------
(* createGithubRepoServer *)

NoConfig == [token |-> Unset, owner |-> Unset, repo |-> Unset, branch |-> Unset]

Threw(msg) == [threw |-> TRUE, message |-> msg, config |-> NoConfig]

Returned(cfg) == [threw |-> FALSE, message |-> "", config |-> cfg]

createGithubRepoServerMut(p) ==
    IF Falsy(p.owner) THEN Threw("owner is required")
    ELSE IF Falsy(p.githubPersonalAccessToken)
    THEN Threw("githubPersonalAccessToken is required")
    ELSE IF Falsy(p.repo) THEN Threw("repo is required")
    ELSE Returned([token |-> p.githubPersonalAccessToken, owner |-> p.owner,
                   repo |-> p.repo, branch |-> p.branch])

createGithubRepoServer(p) ==
    IF Falsy(p.githubPersonalAccessToken)
    THEN Threw("githubPersonalAccessToken is required")
    ELSE IF Falsy(p.owner) THEN Threw("owner is required")
    ELSE IF Falsy(p.repo) THEN Threw("repo is required")
    ELSE Returned([token |-> p.githubPersonalAccessToken, owner |-> p.owner,
                   repo |-> p.repo, branch |-> p.branch])

-----------------------------------------------------------------------------
(* The forge's replies and the handlers' outcomes *)

NoReply == [kind |-> "none", ok |-> FALSE, statusText |-> "", body |-> JUndefined]

(* fetch rejects: the connection failed *)
Rejected == [kind |-> "reject", ok |-> FALSE, statusText |-> "", body |-> JUndefined]

HttpResponse(ok, statusText, body) ==
    [kind |-> "response", ok |-> ok, statusText |-> statusText, body |-> body]

(* a body that is not JSON: response.json() rejects *)
JNotJson == [t |-> "not-json"]

NoError == [name |-> "", message |-> ""]

NoValue == [nothing |-> TRUE]

Ok(v) == [status |-> "result", value |-> v, error |-> NoError]

Err(name, message) ==
    [status |-> "error", value |-> NoValue,
     error |-> [name |-> name, message |-> message]]

(* the fetch and the two checks that listFiles and getFileContent share *)
FetchError(reply) ==
    IF reply.kind = "reject" THEN Err("TypeError", "fetch failed")
    ELSE IF ~reply.ok
    THEN Err("Error", "GitHub API error: " \o reply.statusText)
    ELSE IF reply.body.t = "not-json"
    THEN Err("SyntaxError", "Unexpected token")
    ELSE Ok(NoValue)

listFilesMut(reply) ==
    IF FetchError(reply).status = "error" THEN FetchError(reply)
    ELSE IF reply.body.t = "array" THEN Ok(reply.body.a)
    ELSE Ok(<<>>)

listFiles(reply) ==
    IF FetchError(reply).status = "error" THEN FetchError(reply)
    ELSE IF reply.body.t = "array" THEN Ok(reply.body.a)
    ELSE Ok(<<reply.body>>)

getFileContent(reply) ==
    IF FetchError(reply).status = "error" THEN FetchError(reply)
    ELSE IF ~GitHubContentSchema(reply.body)
    THEN Err("ZodError", "Invalid input")
    ELSE IF reply.body.t = "array"
    THEN Err("Error", "Path points to a directory, not a file")
    ELSE Ok(DecodeContent(Get(reply.body, "content").v))

(* one element of files.map(...) *)
Descriptor(cfg, file) ==
    [uri |-> URLResolve(Get(file, "path"), resourceBaseUrl(cfg)),
     mimeType |-> IF Get(file, "type").t = "string" /\ Get(file, "type").v = "file"
                  THEN "text/plain"
                  ELSE "application/x-directory",
     name |-> Get(file, "path")]

(* the list-resources handler after its fetch: reading file.path of a null
   entry throws *)
ListResourcesResult(cfg, reply) ==
    LET files == listFiles(reply)
    IN  IF files.status = "error" THEN files
        ELSE IF \E i \in 1..Len(files.value) : files.value[i].t = "null"
        THEN Err("TypeError", "Cannot read properties of null")
        ELSE Ok([resources |->
                   [i \in 1..Len(files.value) |-> Descriptor(cfg, files.value[i])]])

(* the read-resource handler after its fetch *)
ReadResourceResult(uri, reply) ==
    LET content == getFileContent(reply)
    IN  IF content.status = "error" THEN content
        ELSE Ok([contents |->
                   <<[uri |-> uri, mimeType |-> "text/plain", text |-> content.value]>>])

ListToolsResult == Ok([tools |-> <<>>])

-----------------------------------------------------------------------------
(* What the forge can answer *)

FileEntry(path, content) ==
    JObj([type |-> JStr("file"), encoding |-> JStr("base64"),
          size |-> JNum(Len(content)), name |-> JStr(path[Len(path)]),
          path |-> JStr(path), content |-> JStr(content), sha |-> JStr("3b18e5"),
          url |-> JStr("url"), git_url |-> JStr("git_url"),
          html_url |-> JStr("html_url"), download_url |-> JStr("download_url")])

(* an element of a directory listing: it carries no content and no encoding,
   and a directory's download_url is null *)
ListingEntry(type, path, downloadUrl) ==
    JObj([type |-> JStr(type), size |-> JNum(0), name |-> JStr(path[Len(path)]),
          path |-> JStr(path), sha |-> JStr("3b18e5"), url |-> JStr("url"),
          git_url |-> JStr("git_url"), html_url |-> JStr("html_url"),
          download_url |-> downloadUrl])

Without(o, k) == JObj([x \in DOMAIN o.f \ {k} |-> o.f[x]])

ReadmeEntry == ListingEntry("file", <<"README.md">>, JStr("download_url"))
SrcEntry == ListingEntry("dir", <<"src">>, JNull)
ContentsEntry == ListingEntry("file", <<"contents">>, JStr("download_url"))
NoShaEntry == Without(ReadmeEntry, "sha")
NoPathEntry == Without(SrcEntry, "path")

(* "hi", "hi" on two lines without padding, an e acute, a byte that is not
   utf8, and the empty file *)
Contents ==
    {<<"a", "G", "k", "=">>, <<"a", "G", "\n", "k">>, <<"w", "6", "k", "=">>,
     <<"/", "w", "=", "=">>, <<>>}

ReadmeFile == FileEntry(<<"README.md">>, <<"a", "G", "k", "=">>)

NotFound == HttpResponse(FALSE, "Not Found", JObj([message |-> JStr("Not Found")]))

(* the replies of the process model: one of each kind *)
CoreReplies ==
    {Rejected, NotFound,
     HttpResponse(TRUE, "OK", JArr(<<ReadmeEntry, SrcEntry>>)),
     HttpResponse(TRUE, "OK", ReadmeFile),
     HttpResponse(TRUE, "OK", SrcEntry)}

Entries == {ReadmeEntry, SrcEntry, ContentsEntry, NoShaEntry, NoPathEntry, JNull}

Listings == UNION {[1..n -> Entries] : n \in 0..MaxEntries}

Bodies ==
    {JArr(l) : l \in Listings}
      \cup {FileEntry(<<"src", "index.ts">>, c) : c \in Contents}
      \cup {ReadmeFile, SrcEntry, JNull, JNotJson, JStr("moved"),
            [ReadmeFile EXCEPT !.f.size = JStr("2")],
            [ReadmeFile EXCEPT !.f.download_url = JNull]}

(* the replies of the library-use model *)
AllReplies ==
    {Rejected, NotFound, HttpResponse(FALSE, "Forbidden", JNull)}
      \cup {HttpResponse(TRUE, "OK", b) : b \in Bodies}

-----------------------------------------------------------------------------
(* What a client can ask to read *)

(* a string that is not an absolute URL *)
RelativeRef == [scheme |-> "", host |-> "", path |-> <<"README.md">>, search |-> ""]

ResourceUri(cfg, path) == URLResolve(JStr(path), resourceBaseUrl(cfg))

CoreUris(cfg) ==
    {ResourceUri(cfg, <<"README.md">>),
     ResourceUri(cfg, <<"src", "contents", "a.ts">>),
     Href(<<"repos", cfg.owner, cfg.repo, "README.md">>, ""),
     RelativeRef}

AllUris(cfg) ==
    CoreUris(cfg)
      \cup {ResourceUri(cfg, <<"src", "index.ts">>),
            ResourceUri(cfg, <<"contents">>),
            ResourceUri(cfg, <<"">>),
            ResourceUri(cfg, <<"contents", "contents", "x">>),
            Href(<<"contents", "", "contents", "x">>, "")}

-----------------------------------------------------------------------------
(* State *)

NoUri == [scheme |-> "", host |-> "", path |-> <<>>, search |-> ""]

IdleReq ==
    [st |-> "idle", kind |-> "none", uri |-> NoUri, path |-> UndefinedPath,
     url |-> NoUri, reply |-> NoReply, responses |-> <<>>]

Tokens == {Unset, "", "ghp_1"}
Owners == {Unset, "", "acme", "contents"}
Repos == {Unset, "", "widgets", "contents"}
Branches == {Unset, "dev"}

NoEnv == [token |-> Unset, owner |-> Unset, repo |-> Unset, branch |-> Unset]

NoParams ==
    [githubPersonalAccessToken |-> Unset, owner |-> Unset, repo |-> Unset,
     branch |-> Unset]

(* the process starts: runServer has not run yet.  The environment is any
   combination of unset, empty and set variables taken from these sets *)
Init ==
    /\ env \in [token : Tokens, owner : Owners \ {""}, repo : Repos \ {"contents"},
                branch : Branches]
    /\ pc = "start"
    /\ params = NoParams
    /\ server = "none"
    /\ config = NoConfig
    /\ thrown = <<>>
    /\ exit = <<>>
    /\ stderr = <<>>
    /\ reqs = [r \in 1..MaxReq |-> IdleReq]
    /\ outbound = 0

(* a program that imports createGithubRepoServer is about to call it *)
EmbedInit ==
    /\ env = NoEnv
    /\ pc = "embed"
    /\ params \in [githubPersonalAccessToken : Tokens, owner : Owners, repo : Repos,
                   branch : Branches \cup {""}]
    /\ server = "none"
    /\ config = NoConfig
    /\ thrown = <<>>
    /\ exit = <<>>
    /\ stderr = <<>>
    /\ reqs = [r \in 1..MaxReq |-> IdleReq]
    /\ outbound = 0

-----------------------------------------------------------------------------
(* runServer *)

Fatal(diagnostic) ==
    /\ stderr' = Append(stderr, diagnostic)
    /\ exit' = <<1>>
    /\ pc' = "exit"

(* runServer up to its await: the environment checks, the construction of the
   server and the call of server.connect.  An error thrown on the way is
   caught by runServer().catch *)
runServer ==
    /\ pc = "start"
    /\ IF Falsy(env.token)
       THEN /\ Fatal("GITHUB_PERSONAL_ACCESS_TOKEN environment variable is not set")
            /\ UNCHANGED <<params, server, config, thrown>>
       ELSE IF Falsy(env.owner) \/ Falsy(env.repo)
       THEN /\ Fatal("GITHUB_OWNER and GITHUB_REPO environment variables are required")
            /\ UNCHANGED <<params, server, config, thrown>>
       ELSE LET p == [githubPersonalAccessToken |-> env.token, owner |-> env.owner,
                      repo |-> env.repo, branch |-> env.branch]
                made == createGithubRepoServer(p)
            IN  /\ params' = p
                /\ IF made.threw
                   THEN /\ Fatal("Server error: " \o made.message)
                        /\ thrown' = Append(thrown, made.message)
                        /\ UNCHANGED <<server, config>>
                   ELSE /\ server' = "constructed"
                        /\ config' = made.config
                        /\ pc' = "connecting"
                        /\ UNCHANGED <<thrown, exit, stderr>>
    /\ UNCHANGED <<env, reqs, outbound>>

(* server.connect(transport) resolves *)
ConnectResolves ==
    /\ pc = "connecting"
    /\ server' = "connected"
    /\ pc' = "attached"
    /\ UNCHANGED <<env, params, config, thrown, exit, stderr, reqs, outbound>>

ConnectRejectsMut ==
    /\ pc = "connecting"
    /\ pc' = "attached"
    /\ UNCHANGED <<env, params, server, config, thrown, exit, stderr, reqs, outbound>>

(* server.connect(transport) rejects: runServer().catch *)
ConnectRejects ==
    /\ pc = "connecting"
    /\ Fatal("Server error: connect")
    /\ UNCHANGED <<env, params, server, config, thrown, reqs, outbound>>

RunningDiagnostic == "GitHub Repo MCP Server running on stdio"

(* runServer after its await *)
runServerResumes ==
    /\ pc = "attached"
    /\ stderr' = Append(stderr, RunningDiagnostic)
    /\ pc' = "done"
    /\ UNCHANGED <<env, params, server, config, thrown, exit, reqs, outbound>>

-----------------------------------------------------------------------------
(* Library use: a caller constructs the server itself and attaches it *)

EmbedCreate ==
    /\ pc = "embed"
    /\ LET made == createGithubRepoServer(params)
       IN  IF made.threw
           THEN /\ thrown' = Append(thrown, made.message)
                /\ pc' = "threw"
                /\ UNCHANGED <<server, config>>
           ELSE /\ server' = "constructed"
                /\ config' = made.config
                /\ pc' = "created"
                /\ UNCHANGED thrown
    /\ UNCHANGED <<env, params, exit, stderr, reqs, outbound>>

EmbedConnect ==
    /\ pc = "created"
    /\ server' = "connected"
    /\ pc' = "embedded"
    /\ UNCHANGED <<env, params, config, thrown, exit, stderr, reqs, outbound>>

-----------------------------------------------------------------------------
(* The request handlers.  A handler runs without interruption up to its
   await of fetch; the forge answers, or never does; the handler then runs to
   its end, and the protocol layer sends what it returned or threw. *)

(* the transport delivers requests once the server is attached and the
   caller that attached it has run to its end *)
Serving ==
    /\ server = "connected"
    /\ exit = <<>>
    /\ pc \in {"done", "embedded"}

(* requests are numbered in the order of their arrival *)
Arrives(r) ==
    /\ Serving
    /\ reqs[r].st = "idle"
    /\ \A q \in 1..(r - 1) : reqs[q].st # "idle"

(* ListResourcesRequestSchema handler, up to the fetch of listFiles() *)
ListResourcesRequest(r) ==
    /\ Arrives(r)
    /\ reqs' = [reqs EXCEPT ![r] =
                  [@ EXCEPT !.st = "awaiting", !.kind = "list",
                            !.url = ContentsUrl(config, <<"">>)]]
    /\ outbound' = outbound + 1
    /\ UNCHANGED <<env, pc, params, server, config, thrown, exit, stderr>>

(* ReadResourceRequestSchema handler, up to the fetch of getFileContent(path) *)
ReadResourceRequest(r, uri) ==
    /\ Arrives(r)
    /\ IF ~URLParses(uri)
       THEN /\ reqs' = [reqs EXCEPT ![r] =
                          [@ EXCEPT !.st = "done", !.kind = "read", !.uri = uri,
                                    !.responses = <<Err("TypeError", "Invalid URL")>>]]
            /\ UNCHANGED outbound
       ELSE /\ reqs' = [reqs EXCEPT ![r] =
                          [@ EXCEPT !.st = "awaiting", !.kind = "read", !.uri = uri,
                                    !.path = ExtractPath(uri),
                                    !.url = ContentsUrl(config, ExtractPath(uri).segs)]]
            /\ outbound' = outbound + 1
    /\ UNCHANGED <<env, pc, params, server, config, thrown, exit, stderr>>

(* ListToolsRequestSchema handler *)
ListToolsRequest(r) ==
    /\ Arrives(r)
    /\ reqs' = [reqs EXCEPT ![r] =
                  [@ EXCEPT !.st = "done", !.kind = "tools",
                            !.responses = <<ListToolsResult>>]]
    /\ UNCHANGED <<env, pc, params, server, config, thrown, exit, stderr, outbound>>

(* the forge answers the fetch of request r *)
ForgeReply(r, reply) ==
    /\ exit = <<>>
    /\ reqs[r].st = "awaiting"
    /\ reqs' = [reqs EXCEPT ![r] = [@ EXCEPT !.st = "replied", !.reply = reply]]
    /\ UNCHANGED <<env, pc, params, server, config, thrown, exit, stderr, outbound>>

HandlerResult(q) ==
    IF q.kind = "list" THEN ListResourcesResult(config, q.reply)
    ELSE ReadResourceResult(q.uri, q.reply)

ResumeSwallowMut(r) ==
    /\ exit = <<>>
    /\ reqs[r].st = "replied"
    /\ reqs' = [reqs EXCEPT ![r] =
                  [@ EXCEPT !.st = "done",
                            !.responses =
                               Append(@, IF HandlerResult(reqs[r]).status = "error"
                                         THEN Ok([resources |-> <<>>])
                                         ELSE HandlerResult(reqs[r]))]]
    /\ UNCHANGED <<env, pc, params, server, config, thrown, exit, stderr, outbound>>

ResumeFatalMut(r) ==
    /\ exit = <<>>
    /\ reqs[r].st = "replied"
    /\ reqs' = [reqs EXCEPT ![r] =
                  [@ EXCEPT !.st = "done",
                            !.responses = Append(@, HandlerResult(reqs[r]))]]
    /\ IF HandlerResult(reqs[r]).status = "error"
       THEN Fatal("Server error: " \o HandlerResult(reqs[r]).error.message)
       ELSE UNCHANGED <<pc, exit, stderr>>
    /\ UNCHANGED <<env, params, server, config, thrown, outbound>>

ResumeRetryMut(r) ==
    /\ exit = <<>>
    /\ reqs[r].st = "replied"
    /\ IF reqs[r].reply.kind = "response" /\ ~reqs[r].reply.ok
       THEN /\ reqs' = [reqs EXCEPT ![r] = [@ EXCEPT !.st = "awaiting"]]
            /\ outbound' = outbound + 1
       ELSE /\ reqs' = [reqs EXCEPT ![r] =
                          [@ EXCEPT !.st = "done",
                                    !.responses = Append(@, HandlerResult(reqs[r]))]]
            /\ UNCHANGED outbound
    /\ UNCHANGED <<env, pc, params, server, config, thrown, exit, stderr>>

ResumeInOrderMut(r) ==
    /\ exit = <<>>
    /\ reqs[r].st = "replied"
    /\ \A q \in 1..(r - 1) : reqs[q].st = "done"
    /\ reqs' = [reqs EXCEPT ![r] =
                  [@ EXCEPT !.st = "done",
                            !.responses = Append(@, HandlerResult(reqs[r]))]]
    /\ UNCHANGED <<env, pc, params, server, config, thrown, exit, stderr, outbound>>

(* the handler of request r runs from its await to its end *)
Resume(r) ==
    /\ exit = <<>>
    /\ reqs[r].st = "replied"
    /\ reqs' = [reqs EXCEPT ![r] =
                  [@ EXCEPT !.st = "done",
                            !.responses = Append(@, HandlerResult(reqs[r]))]]
    /\ UNCHANGED <<env, pc, params, server, config, thrown, exit, stderr, outbound>>

-----------------------------------------------------------------------------
(* Specifications *)

Requests == 1..MaxReq

(* the process: node index.js *)
Next ==
    \/ runServer
    \/ ConnectResolves
    \/ ConnectRejects
    \/ runServerResumes
    \/ \E r \in Requests : ListResourcesRequest(r)
    \/ \E r \in Requests : \E uri \in CoreUris(config) : ReadResourceRequest(r, uri)
    \/ \E r \in Requests : ListToolsRequest(r)
    \/ \E r \in Requests : \E reply \in CoreReplies : ForgeReply(r, reply)
    \/ \E r \in Requests : Resume(r)

Spec == Init /\ [][Next]_vars

(* the requests and replies of the scheduling model: a failure, a file and a
   directory; a URI that list-resources returns and one that does not parse *)
LiveReplies ==
    {NotFound,
     HttpResponse(TRUE, "OK", JArr(<<ReadmeEntry, SrcEntry>>)),
     HttpResponse(TRUE, "OK", ReadmeFile)}

LiveUris(cfg) == {ResourceUri(cfg, <<"README.md">>), RelativeRef}

FairNext ==
    \/ runServer
    \/ ConnectResolves
    \/ ConnectRejects
    \/ runServerResumes
    \/ \E r \in Requests : ListResourcesRequest(r)
    \/ \E r \in Requests : \E uri \in LiveUris(config) : ReadResourceRequest(r, uri)
    \/ \E r \in Requests : ListToolsRequest(r)
    \/ \E r \in Requests : \E reply \in LiveReplies : ForgeReply(r, reply)
    \/ \E r \in Requests : Resume(r)

(* the event loop runs a handler whose fetch has completed; nothing makes the
   forge answer *)
FairSpec ==
    /\ Init
    /\ [][FairNext]_vars
    /\ \A r \in Requests : WF_vars(Resume(r))

(* library use: one request against every reply of the forge *)
EmbedNext ==
    \/ EmbedCreate
    \/ EmbedConnect
    \/ ListResourcesRequest(1)
    \/ \E uri \in AllUris(config) : ReadResourceRequest(1, uri)
    \/ ListToolsRequest(1)
    \/ \E reply \in AllReplies : ForgeReply(1, reply)
    \/ Resume(1)

EmbedSpec == EmbedInit /\ [][EmbedNext]_vars

-----------------------------------------------------------------------------
(* Properties *)

Done(q) == q.st = "done"

Failed(q) == Done(q) /\ q.responses[1].status = "error"

Answered(q) == Done(q) /\ q.responses[1].status = "result"

OkReply(q) == q.reply.kind = "response" /\ q.reply.ok

DirectoryError ==
    [name |-> "Error", message |-> "Path points to a directory, not a file"]

(* the first of accessToken, owner, repo that is empty or absent *)
FirstMissing(p) ==
    IF Falsy(p.githubPersonalAccessToken) THEN "githubPersonalAccessToken"
    ELSE IF Falsy(p.owner) THEN "owner"
    ELSE IF Falsy(p.repo) THEN "repo"
    ELSE ""

(* C1: createGithubRepoServer fails with "<field> is required" for the first
   missing field in the order githubPersonalAccessToken, owner, repo; it
   returns a server exactly when all three are non-empty; and construction
   makes no outbound call. *)
C1_ValidationOrder ==
    pc \in {"threw", "created", "embedded"} =>
      /\ FirstMissing(params) # "" =>
           /\ thrown = <<FirstMissing(params) \o " is required">>
           /\ server = "none"
      /\ FirstMissing(params) = "" =>
           /\ thrown = <<>>
           /\ server \in {"constructed", "connected"}
           /\ config.owner = params.owner /\ config.repo = params.repo
      /\ pc \in {"threw", "created"} => outbound = 0

C1_Witness ==
    /\ pc = "threw"
    /\ params.githubPersonalAccessToken = ""
    /\ params.owner = Unset
    /\ params.repo = "widgets"
    /\ thrown = <<"githubPersonalAccessToken is required">>

(* C2: a handled request has exactly one outcome, a result or an error and
   never both; a failed forge call, a body the schema rejects and a directory
   where a file was asked for all end in an error. *)
C2_OneOutcome ==
    \A r \in Requests :
      LET q == reqs[r]
      IN  /\ Len(q.responses) <= 1
          /\ Done(q) <=> Len(q.responses) = 1
          /\ Done(q) =>
               \/ /\ q.responses[1].status = "result"
                  /\ q.responses[1].error = NoError
                  /\ q.responses[1].value # NoValue
               \/ /\ q.responses[1].status = "error"
                  /\ q.responses[1].error # NoError
                  /\ q.responses[1].value = NoValue
          /\ (Done(q) /\ q.kind \in {"list", "read"} /\ q.reply.kind # "none"
                /\ ~OkReply(q)) => Failed(q)
          /\ (Done(q) /\ q.kind = "read" /\ OkReply(q)
                /\ (q.reply.body.t = "array" \/ ~GitHubFileContentSchema(q.reply.body)))
               => Failed(q)

C2_Witness ==
    /\ Failed(reqs[1]) /\ reqs[1].kind = "read" /\ OkReply(reqs[1])
    /\ reqs[1].reply.body.t = "array"
    /\ Answered(reqs[2]) /\ reqs[2].kind = "list"

(* the configuration runServer builds from the environment *)
EnvConfig ==
    [token |-> env.token, owner |-> env.owner, repo |-> env.repo,
     branch |-> env.branch]

(* C3: after requests have failed the server is still connected, the process
   has not exited, the configuration is the one it was constructed with, and
   a request whose forge call succeeded has the answer that its own reply
   gives under that configuration. *)
C3_ErrorsAreLocal ==
    (\E r \in Requests : Failed(reqs[r])) =>
      /\ server = "connected"
      /\ exit = <<>>
      /\ pc = "done"
      /\ config = EnvConfig
      /\ \A s \in Requests :
           (Done(reqs[s]) /\ OkReply(reqs[s])) =>
             reqs[s].responses =
               <<IF reqs[s].kind = "list"
                 THEN ListResourcesResult(EnvConfig, reqs[s].reply)
                 ELSE ReadResourceResult(reqs[s].uri, reqs[s].reply)>>

C3_Witness ==
    /\ Failed(reqs[1]) /\ reqs[1].reply = NotFound
    /\ Answered(reqs[2]) /\ reqs[2].kind = "read"
    /\ reqs[2].responses[1].value.contents[1].text = <<104, 105>>

(* a read request whose fetch came back with an HTTP ok JSON array *)
ReadGotArray(q) ==
    Done(q) /\ q.kind = "read" /\ OkReply(q) /\ q.reply.body.t = "array"

(* C4, as claimed: every HTTP ok response whose body is a JSON array, whatever
   the shape of its elements, makes getFileContent fail with "Path points to
   a directory, not a file". *)
C4_AnyArrayIsDirectory ==
    \A r \in Requests :
      ReadGotArray(reqs[r]) => reqs[r].responses[1].error = DirectoryError

(* C4, amended: an HTTP ok JSON array of any length whose elements all match
   the directory entry shape makes getFileContent fail with "Path points to a
   directory, not a file", which is neither the forge API error nor the shape
   validation error; an array with an element that does not match fails with
   the shape validation error. *)
C4_DirectoryRejected ==
    \A r \in Requests :
      ReadGotArray(reqs[r]) =>
        LET a == reqs[r].reply.body.a
            e == reqs[r].responses[1]
        IN  /\ e.status = "error"
            /\ IF \A i \in 1..Len(a) : GitHubDirectoryContentSchema(a[i])
               THEN e.error = DirectoryError
               ELSE e.error.name = "ZodError"

C4_Witness ==
    /\ ReadGotArray(reqs[1])
    /\ reqs[1].reply.body.a = <<ReadmeEntry, SrcEntry>>
    /\ reqs[1].responses[1].error = DirectoryError

(* everything that follows the first "/contents/" of a pathname *)
AfterFirstContents(segs) ==
    SubSeq(segs, NextMatch(segs, 1) + 1, Len(segs))

(* C5: for a resource URI whose path contains "/contents/", the read-resource
   handler asks getFileContent for everything that follows the first
   "/contents/", also when the remainder contains "/contents/" again. *)
C5_PathAfterContents ==
    \A r \in Requests :
      LET q == reqs[r]
      IN  (q.kind = "read" /\ URLParses(q.uri) /\ NextMatch(q.uri.path, 1) # 0) =>
            /\ q.path = [defined |-> TRUE, segs |-> AfterFirstContents(q.uri.path)]
            /\ q.url = ContentsUrl(config, AfterFirstContents(q.uri.path))

(* C6: reading the URI that list-resources returned for a file entry fetches
   that entry's path and returns the URI unchanged, text/plain, and the
   decoded content. *)
C6_RoundTrip ==
    \A r \in Requests : \A s \in Requests :
      (Answered(reqs[r]) /\ reqs[r].kind = "list" /\ reqs[s].kind = "read") =>
        LET files == listFiles(reqs[r].reply).value
            listed == reqs[r].responses[1].value.resources
        IN  \A i \in 1..Len(files) :
              (Get(files[i], "type") = JStr("file") /\ reqs[s].uri = listed[i].uri) =>
                /\ reqs[s].path = [defined |-> TRUE, segs |-> Get(files[i], "path").v]
                /\ reqs[s].url = ContentsUrl(config, Get(files[i], "path").v)
                /\ (Done(reqs[s]) /\ OkReply(reqs[s])
                      /\ GitHubFileContentSchema(reqs[s].reply.body)) =>
                     reqs[s].responses[1].value.contents =
                       <<[uri |-> listed[i].uri, mimeType |-> "text/plain",
                          text |-> DecodeContent(Get(reqs[s].reply.body, "content").v)]>>

Wrote(diagnostic) == \E i \in 1..Len(stderr) : stderr[i] = diagnostic

EnvComplete == ~Falsy(env.token) /\ ~Falsy(env.owner) /\ ~Falsy(env.repo)

C7_State ==
    /\ server = "connected" => EnvComplete
    /\ (pc # "start" /\ ~EnvComplete) => (exit = <<1>> /\ server = "none")
    /\ pc = "exit" <=> exit = <<1>>
    /\ exit # <<>> => (exit = <<1>> /\ server # "connected")
    /\ Wrote(RunningDiagnostic) => (server = "connected" /\ pc = "done")

C7_Step ==
    /\ server = "connected" => (server' = "connected" /\ exit' = <<>>)
    /\ exit # <<>> => UNCHANGED vars

(* C7: the server is connected only if the token, the owner and the repo are
   all set; if one is not, or construction or attachment fails, the process
   exits with code 1 and is never connected; the confirmation is written only
   after attachment; once connected the server stays connected and the
   process does not exit with code 1. *)
C7_Lifecycle == [](C7_State) /\ [][C7_Step]_vars

C7_Witness ==
    /\ server = "connected"
    /\ pc = "done"
    /\ stderr = <<RunningDiagnostic>>
    /\ Done(reqs[1])

(* C8: list-resources returns one descriptor per entry of the forge's root
   response, in the forge's order, a single object counting as one entry;
   mimeType is text/plain exactly for the entries of type "file" and
   application/x-directory otherwise; name is the entry's path. *)
C8_Descriptors ==
    \A r \in Requests :
      LET q == reqs[r]
          entries == IF q.reply.body.t = "array" THEN q.reply.body.a
                     ELSE <<q.reply.body>>
      IN  (Done(q) /\ q.kind = "list" /\ OkReply(q) /\ q.reply.body # JNotJson
             /\ \A i \in 1..Len(entries) : entries[i] # JNull) =>
            /\ Answered(q)
            /\ LET listed == q.responses[1].value.resources
               IN  /\ Len(listed) = Len(entries)
                   /\ \A i \in 1..Len(entries) :
                        /\ listed[i].name = Get(entries[i], "path")
                        /\ listed[i].mimeType = "text/plain"
                             <=> Get(entries[i], "type") = JStr("file")
                        /\ listed[i].mimeType # "text/plain"
                             => listed[i].mimeType = "application/x-directory"

C8_Witness ==
    /\ Answered(reqs[1]) /\ reqs[1].kind = "list"
    /\ reqs[1].reply.body = JArr(<<ReadmeEntry, SrcEntry>>)
    /\ reqs[1].responses[1].value.resources[1].mimeType = "text/plain"
    /\ reqs[1].responses[1].value.resources[2].mimeType = "application/x-directory"

(* C9, as claimed: every list-resources and every read-resource request
   makes exactly one outbound call, list-tools and construction none. *)
C9_OneCallPerRequest ==
    outbound = Cardinality({r \in Requests : reqs[r].kind \in {"list", "read"}})

(* C9, amended: every list-resources request, and every read-resource request
   whose URI parses as an absolute URL, makes exactly one outbound call,
   whatever the forge answers; a read-resource request whose URI does not
   parse fails before its fetch and makes none; list-tools requests and
   construction make none. *)
C9_OneCallPerFetch ==
    outbound =
      Cardinality({r \in Requests :
                     \/ reqs[r].kind = "list"
                     \/ reqs[r].kind = "read" /\ URLParses(reqs[r].uri)})

C9_Witness ==
    /\ Failed(reqs[1]) /\ reqs[1].reply = NotFound
    /\ Done(reqs[2]) /\ reqs[2].kind = "tools"
    /\ outbound = 1

C10_OwnInputsOnly ==
    \A r \in Requests : \A s \in Requests :
      (Done(reqs[r]) /\ Done(reqs[s]) /\ reqs[r].kind = reqs[s].kind
         /\ reqs[r].uri = reqs[s].uri /\ reqs[r].reply = reqs[s].reply) =>
        reqs[r].responses = reqs[s].responses

(* C10: a fetch that never completes blocks only its own request; every
   request whose fetch completes is answered in the end, and two requests
   with the same parameters and the same reply get the same answer, whatever
   the order of arrival and completion. *)
C10_Isolation ==
    /\ [](C10_OwnInputsOnly)
    /\ \A r \in Requests : (reqs[r].st = "replied") ~> Done(reqs[r])

C10_Witness ==
    /\ reqs[1].st = "awaiting"
    /\ Answered(reqs[2]) /\ reqs[2].kind = "read"
    /\ reqs[2].uri = reqs[1].uri

=============================================================================
